---- MODULE Spec2Model ----
(***************************************************************************)
(* The engineering dashboard of src/app.py as a state machine.             *)
(*                                                                         *)
(* Time is counted in ticks: DayTicks ticks make one calendar day and tick *)
(* 0 is the midnight that starts a Monday, so a timestamp dt falls on      *)
(* weekday (dt \div DayTicks) % 7 with Monday = 0, as datetime.weekday().  *)
(* Every run of the script (a "render") is one action: Streamlit re-runs   *)
(* the whole file on each interaction.  The only state that survives a run *)
(* is the memo of st.cache_data around load_data, and the file on disk.    *)
(***************************************************************************)
EXTENDS Integers, Sequences, FiniteSets, TLC

VARIABLES
    dataset,            \* drawings.csv on disk: a sequence of raw rows
    cache,              \* st.cache_data memo of load_data: <<>> or <<df>>
    page,               \* st.sidebar.radio selection of the last run
    owner,              \* st.selectbox selection of the last run
    today,              \* normalize_date(datetime.datetime.now()) of the last run
    df,                 \* the frame load_data() returned to the last run
    df_filtered,        \* the owner-filtered frame
    outcome,            \* "none" | "warning" | "error" | "chart"
    total_tasks,
    earliest,
    latest,
    weekly_dates,
    planned_remaining,
    actual_remaining

vars == <<dataset, cache, page, owner, today, df, df_filtered, outcome,
          total_tasks, earliest, latest, weekly_dates, planned_remaining,
          actual_remaining>>

(***************************************************************************)
(* Bounds of the model.                                                    *)
(***************************************************************************)
DayTicks == 2       \* clock resolution: ticks per day
MaxRows == 2        \* rows of drawings.csv
MinToday == 6       \* first day datetime.now() is drawn from
MaxToday == 14      \* last day datetime.now() is drawn from
MaxCallDay == 15    \* last day of the arguments of a direct get_weekly_dates call

(***************************************************************************)
(* Values.                                                                 *)
(***************************************************************************)
NaT == -1           \* pandas.NaT: a missing timestamp (a blank date cell)
Unparseable == -2   \* a date cell whose text is no date
None == -1          \* Python None in actual_remaining (counts are >= 0)
NaN == ""           \* an empty text cell, which read_csv yields as NaN

Day(n) == n * DayTicks
timedelta(days) == days * DayTicks
weekday(dt) == (dt \div DayTicks) % 7

\* src/app.py:11-13; NaT.replace(...) is NaT
normalize_date(dt) == IF dt = NaT THEN NaT ELSE dt - (dt % DayTicks)

\* mutant: Monday taken as weekday 1 (isoweekday numbering)
RECURSIVE BackToMonday_iso(_)
BackToMonday_iso(current) ==
    IF weekday(current) # 1
    THEN BackToMonday_iso(current - timedelta(1))
    ELSE current

\* src/app.py:19-20: back up to the most recent Monday
RECURSIVE BackToMonday(_)
BackToMonday(current) ==
    IF weekday(current) # 0 THEN BackToMonday(current - timedelta(1)) ELSE current

\* src/app.py:21-25
RECURSIVE WeeksUpTo(_, _)
WeeksUpTo(current, end_date) ==
    IF current <= end_date
    THEN <<current>> \o WeeksUpTo(current + timedelta(7), end_date)
    ELSE <<>>

\* src/app.py:15-25
get_weekly_dates(start_date, end_date) ==
    WeeksUpTo(BackToMonday(start_date), end_date)

(***************************************************************************)
(* Frames: a DataFrame is the sequence of its rows.                        *)
(***************************************************************************)
\* str.strip() of a text cell, a sequence of characters
RECURSIVE lstrip(_)
lstrip(s) == IF s # <<>> /\ Head(s) = " " THEN lstrip(Tail(s)) ELSE s
RECURSIVE rstrip(_)
rstrip(s) ==
    IF s # <<>> /\ s[Len(s)] = " " THEN rstrip(SubSeq(s, 1, Len(s) - 1)) ELSE s
strip(s) == rstrip(lstrip(s))

\* src/app.py:62: DrawingNumber.notna() & (DrawingNumber.str.strip() != "")
HasDrawingNumber(row) ==
    row.DrawingNumber # <<>> /\ strip(row.DrawingNumber) # <<>>

\* pd.to_datetime(..., errors='coerce') of one cell (src/app.py:64, 67)
to_datetime(cell) == IF cell < 0 THEN NaT ELSE cell

\* src/app.py:63-68 on one row
ParseRow(row) ==
    [row EXCEPT !.EstimatedCompletionDate = normalize_date(to_datetime(@)),
                !.ReleasedDate = normalize_date(to_datetime(@))]

\* src/app.py:59-69: the body of load_data, on the file as it is now
load_data_body(file) ==
    LET kept == SelectSeq(file, HasDrawingNumber)
    IN  [i \in 1..Len(kept) |-> ParseRow(kept[i])]

\* src/app.py:57-58: st.cache_data on a function without arguments: the memo
\* is keyed by the function alone, so a hit returns what the first call read
load_data(file, memo) == IF memo = <<>> THEN load_data_body(file) ELSE memo[1]

(***************************************************************************)
(* The script after the load (src/app.py:74-131).                          *)
(***************************************************************************)
\* src/app.py:33-40: the keys of status_data
status_owners == {"All", "BDDS", "Maverick", "Elisen", "Cotney", "Citadel"}

\* src/app.py:75: df["DrawingOwner"].dropna().unique()
csv_owners(frame) == {frame[i].DrawingOwner : i \in 1..Len(frame)} \ {NaN}

\* src/app.py:76: the options of the owner selectbox
combined_owners(frame) == csv_owners(frame) \cup status_owners

\* mutant: owners compared without regard to case
CaseFold(name) == IF name = "bdds" THEN "BDDS" ELSE name
OwnerFilter_caseless(frame, selected) ==
    IF selected # "All"
    THEN SelectSeq(frame,
                   LAMBDA row : CaseFold(row.DrawingOwner) = CaseFold(selected))
    ELSE frame

\* src/app.py:82-85
OwnerFilter(frame, selected) ==
    IF selected # "All"
    THEN SelectSeq(frame, LAMBDA row : row.DrawingOwner = selected)
    ELSE frame

\* src/app.py:94-95: the non-null values of the two date columns
valid_ecd(frame) ==
    {frame[i].EstimatedCompletionDate : i \in 1..Len(frame)} \ {NaT}
valid_rd(frame) ==
    {frame[i].ReleasedDate : i \in 1..Len(frame)} \ {NaT}

Min(S) == CHOOSE x \in S : \A y \in S : x <= y
Max(S) == CHOOSE x \in S : \A y \in S : y <= x

\* src/app.py:99
Earliest(frame) == Min(valid_ecd(frame))

\* mutant: the range is not extended by a week
Latest_no_pad(frame) == Max(valid_ecd(frame) \cup valid_rd(frame))

\* src/app.py:101-103
Latest(frame) == Max(valid_ecd(frame) \cup valid_rd(frame)) + timedelta(7)

\* mutant: the actual line runs two weeks past the current week
max_actual_week_two(now) == BackToMonday(now) + timedelta(14)

\* src/app.py:110-112
current_monday(now) == BackToMonday(now)
\* src/app.py:113
max_actual_week(now) == current_monday(now) + timedelta(7)

\* mutant: the planned cutoff is strict
planned_completed_strict(frame, week) ==
    Cardinality({i \in 1..Len(frame) :
        /\ frame[i].EstimatedCompletionDate # NaT
        /\ frame[i].EstimatedCompletionDate < week})

\* src/app.py:118: rows with EstimatedCompletionDate <= week (NaT <= x is False)
planned_completed(frame, week) ==
    Cardinality({i \in 1..Len(frame) :
        /\ frame[i].EstimatedCompletionDate # NaT
        /\ frame[i].EstimatedCompletionDate <= week})

\* mutant: the comparison with the release date is turned around
actual_completed_flipped(frame, date) ==
    Cardinality({i \in 1..Len(frame) :
        /\ frame[i].ReleasedDate # NaT
        /\ frame[i].ReleasedDate >= date})

\* src/app.py:115, 130: rows with ReleasedDate <= date (NaT <= x is False)
actual_completed(frame, date) ==
    Cardinality({i \in 1..Len(frame) :
        /\ frame[i].ReleasedDate # NaT
        /\ frame[i].ReleasedDate <= date})

\* mutant: the completed count is charted, not the remaining one
PlannedRemainingAt_completed(frame, week) == planned_completed(frame, week)

\* src/app.py:119
PlannedRemainingAt(frame, week) == Len(frame) - planned_completed(frame, week)

\* mutant: a week after today is counted by its own date, not held at today
ActualRemainingAt_no_hold(frame, week, now) ==
    IF week > max_actual_week(now) THEN None
    ELSE Len(frame) - actual_completed(frame, week)

\* src/app.py:122-131
ActualRemainingAt(frame, week, now) ==
    IF week > max_actual_week(now) THEN None
    ELSE IF week > now THEN Len(frame) - actual_completed(frame, now)
    ELSE Len(frame) - actual_completed(frame, week)

\* mutant: the chart also asks for a release date
Outcome_both_dates(frame) ==
    IF frame = <<>> THEN "warning"
    ELSE IF valid_ecd(frame) = {} \/ valid_rd(frame) = {} THEN "error"
    ELSE "chart"

\* src/app.py:90, 96: which branch of the burndown section runs
Outcome(frame) ==
    IF frame = <<>> THEN "warning"
    ELSE IF valid_ecd(frame) = {} THEN "error"
    ELSE "chart"

\* src/app.py:105
WeeklyDates(frame) ==
    IF Outcome(frame) = "chart"
    THEN get_weekly_dates(Earliest(frame), Latest(frame))
    ELSE <<>>

(***************************************************************************)
(* Actions.                                                                *)
(***************************************************************************)
\* One run of the script with the Engineering Dashboard selected
\* (src/app.py:52-154), for the owner picked in the selectbox and the clock
\* reading `now`.
RenderEngineering(selected, now) ==
    LET frame == load_data(dataset, cache)
        filtered == OwnerFilter(frame, selected)
        weeks == WeeklyDates(filtered)
        charted == Outcome(filtered) = "chart"
        day == normalize_date(now)
    IN  /\ selected \in combined_owners(frame)
        /\ page' = "Engineering Dashboard"
        /\ cache' = <<frame>>
        /\ df' = frame
        /\ owner' = selected
        /\ df_filtered' = filtered
        /\ outcome' = Outcome(filtered)
        /\ total_tasks' = IF filtered = <<>> THEN 0 ELSE Len(filtered)
        /\ earliest' = IF charted THEN Earliest(filtered) ELSE NaT
        /\ latest' = IF charted THEN Latest(filtered) ELSE NaT
        /\ weekly_dates' = weeks
        /\ today' = IF charted THEN day ELSE NaT
        /\ planned_remaining' =
               [i \in 1..Len(weeks) |-> PlannedRemainingAt(filtered, weeks[i])]
        /\ actual_remaining' =
               [i \in 1..Len(weeks) |-> ActualRemainingAt(filtered, weeks[i], day)]
        /\ UNCHANGED dataset

\* One run of the script with the Material Dashboard selected
\* (src/app.py:175-215): constants only, load_data is not called and none of
\* the names of the engineering branch is bound.
RenderMaterial ==
    /\ page' = "Material Dashboard"
    /\ df' = <<>>
    /\ owner' = "All"
    /\ df_filtered' = <<>>
    /\ outcome' = "none"
    /\ total_tasks' = 0
    /\ earliest' = NaT
    /\ latest' = NaT
    /\ weekly_dates' = <<>>
    /\ today' = NaT
    /\ planned_remaining' = <<>>
    /\ actual_remaining' = <<>>
    /\ UNCHANGED <<dataset, cache>>

\* The owners the model's user picks among the options of the selectbox:
\* the sentinel, an owner of the file in both spellings, and an owner that
\* only status_data knows.
OwnerChoices == {"All", "BDDS", "bdds", "Maverick"}

\* A run of the script: the user picks a page and an owner, the clock reads
\* some time of some day.
Render ==
    \/ RenderMaterial
    \/ \E selected \in OwnerChoices, d \in MinToday..MaxToday :
           RenderEngineering(selected, Day(d) + (DayTicks - 1))

(***************************************************************************)
(* The files the model starts from.  A raw row holds the text of its       *)
(* cells: DrawingNumber as a sequence of characters (<<>> is the empty     *)
(* cell), DrawingOwner as a string (NaN is the empty cell), and each date  *)
(* cell as NaT (blank), Unparseable, or the timestamp its text denotes.    *)
(***************************************************************************)
RECURSIVE SeqsUpTo(_, _)
SeqsUpTo(S, n) ==
    IF n = 0 THEN {<<>>}
    ELSE LET shorter == SeqsUpTo(S, n - 1)
         IN  shorter \cup {Append(s, x) : s \in shorter, x \in S}

\* Monday noon, Wednesday, and the Wednesday after (day 0 is a Monday)
EstimateCells == {NaT, Day(7) + (DayTicks - 1), Day(9), Day(16)}
ReleaseCells == {NaT, Day(7) + (DayTicks - 1), Day(9)}

\* rows that differ in their dates
DatedRows ==
    [DrawingNumber : {<<"D", "1">>},
     DrawingOwner : {"BDDS"},
     EstimatedCompletionDate : EstimateCells,
     ReleasedDate : ReleaseCells]

\* rows that differ in their key and owner
KeyedRows ==
    [DrawingNumber : {<<"D", "1">>, <<" ">>},
     DrawingOwner : {"BDDS", "bdds"},
     EstimatedCompletionDate : {Unparseable, Day(9)},
     ReleasedDate : {Day(7)}]
    \cup
    {[DrawingNumber |-> <<>>, DrawingOwner |-> "BDDS",
      EstimatedCompletionDate |-> Day(9), ReleasedDate |-> Day(7)],
     [DrawingNumber |-> <<"D", "1">>, DrawingOwner |-> NaN,
      EstimatedCompletionDate |-> Day(9), ReleasedDate |-> Day(7)]}

Datasets == SeqsUpTo(DatedRows, MaxRows) \cup SeqsUpTo(KeyedRows, MaxRows)

\* Before the first run: nothing computed, nothing memoized.
Blank ==
    /\ cache = <<>>
    /\ page = "Engineering Dashboard"
    /\ owner = "All"
    /\ today = NaT
    /\ df = <<>>
    /\ df_filtered = <<>>
    /\ outcome = "none"
    /\ total_tasks = 0
    /\ earliest = NaT
    /\ latest = NaT
    /\ weekly_dates = <<>>
    /\ planned_remaining = <<>>
    /\ actual_remaining = <<>>

Init == dataset \in Datasets /\ Blank

\* The dashboard over a file that does not change.
Spec == Init /\ [][Render]_vars

(***************************************************************************)
(* The dashboard while drawings.csv is rewritten between runs.             *)
(***************************************************************************)
\* the two drawings of a small project, and a row without a key
ReloadRows ==
    {[DrawingNumber |-> <<"D", "1">>, DrawingOwner |-> "BDDS",
      EstimatedCompletionDate |-> Day(9), ReleasedDate |-> Day(7)],
     [DrawingNumber |-> <<"D", "2">>, DrawingOwner |-> "bdds",
      EstimatedCompletionDate |-> Day(16), ReleasedDate |-> NaT],
     [DrawingNumber |-> <<" ">>, DrawingOwner |-> "BDDS",
      EstimatedCompletionDate |-> Unparseable, ReleasedDate |-> NaT]}

ReloadDatasets == SeqsUpTo(ReloadRows, MaxRows)

\* Somebody saves another drawings.csv; the running app is not told.
ChangeDataset ==
    /\ \E file \in ReloadDatasets : file # dataset /\ dataset' = file
    /\ UNCHANGED <<cache, page, owner, today, df, df_filtered, outcome,
                   total_tasks, earliest, latest, weekly_dates,
                   planned_remaining, actual_remaining>>

InitReload == dataset \in ReloadDatasets /\ Blank

NextReload == Render \/ ChangeDataset

SpecReload == InitReload /\ [][NextReload]_vars

(***************************************************************************)
(* get_weekly_dates on its own, for any two timestamps.                    *)
(***************************************************************************)
CallTimes == 0..(Day(MaxCallDay + 1) - 1)

GetWeeklyDatesCall ==
    /\ \E start_date \in CallTimes, end_date \in CallTimes :
           /\ earliest' = start_date
           /\ latest' = end_date
           /\ weekly_dates' = get_weekly_dates(start_date, end_date)
    /\ UNCHANGED <<dataset, cache, page, owner, today, df, df_filtered,
                   outcome, total_tasks, planned_remaining, actual_remaining>>

InitWeekly == dataset = <<>> /\ Blank

SpecWeekly == InitWeekly /\ [][GetWeeklyDatesCall]_vars

(***************************************************************************)
(* What the claims speak of, stated on the state a run leaves behind.      *)
(***************************************************************************)
Charted == outcome = "chart"
Weeks == 1..Len(weekly_dates)
Rows == 1..Len(df_filtered)
OneWeek == 7 * DayTicks

\* today walked back to its Monday: the Monday midnight of today's week
CurrentMonday ==
    CHOOSE m \in 0..today :
        m % OneWeek = 0 /\ m <= today /\ today < m + OneWeek

\* records of the filtered set estimated, or released, on or before a date
EstimatedBy(date) ==
    Cardinality({r \in Rows :
        df_filtered[r].EstimatedCompletionDate \in 0..date})
ReleasedBy(date) ==
    Cardinality({r \in Rows : df_filtered[r].ReleasedDate \in 0..date})
WithoutEstimate ==
    Cardinality({r \in Rows : df_filtered[r].EstimatedCompletionDate = NaT})

\* an engineering run of the script, as a step
EngineeringRun ==
    \E selected \in OwnerChoices, d \in MinToday..MaxToday :
        RenderEngineering(selected, Day(d) + (DayTicks - 1))

\* C1: every engineering run computes from the loader's result on the file
\* as it is at that run; no run sees records parsed from an earlier file.
C1_LoadIsFresh == [][EngineeringRun => df' = load_data_body(dataset')]_vars

\* C2: in a charted series actualRemaining is null for every week after
\* currentMonday + 7 days and non-null for every week on or before today.
C2_ActualNullAfterCutoff ==
    Charted =>
        \A i \in Weeks :
            /\ weekly_dates[i] > CurrentMonday + OneWeek
                   => actual_remaining[i] = None
            /\ weekly_dates[i] <= today => actual_remaining[i] # None

C2_Witness ==
    /\ Charted
    /\ \E i \in Weeks : weekly_dates[i] > CurrentMonday + OneWeek
    /\ \E i \in Weeks : weekly_dates[i] <= today
    /\ \E i \in Weeks :
           weekly_dates[i] > today /\ actual_remaining[i] # None

\* C3: plannedRemaining never rises from one week of the series to the next.
C3_PlannedNonIncreasing ==
    Charted =>
        \A i \in Weeks :
            i + 1 \in Weeks => planned_remaining[i + 1] <= planned_remaining[i]

C3_Witness ==
    /\ Charted
    /\ Len(weekly_dates) >= 3
    /\ planned_remaining[2] < planned_remaining[1]
    /\ planned_remaining[3] < planned_remaining[2]

\* C4: every date get_weekly_dates returns is a Monday, and each entry is
\* exactly 7 days after the one before it.
C4_MondaysSevenApart ==
    \A i \in Weeks :
        /\ weekday(weekly_dates[i]) = 0
        /\ i + 1 \in Weeks => weekly_dates[i + 1] - weekly_dates[i] = OneWeek

C4_Witness ==
    /\ Len(weekly_dates) >= 3
    /\ weekday(earliest) # 0
    /\ weekday(latest) # 0

\* C5: an empty filtered set gives the "no data" warning and no series; a
\* non-empty one without any estimated date gives the "cannot compute" error
\* and no series; every other one gives a series of one point per week.
C5_GuardsDecideTheOutcome ==
    (page = "Engineering Dashboard" /\ outcome # "none") =>
        /\ Len(planned_remaining) = Len(weekly_dates)
        /\ Len(actual_remaining) = Len(weekly_dates)
        /\ IF Rows = {}
           THEN outcome = "warning" /\ weekly_dates = <<>>
           ELSE IF WithoutEstimate = Len(df_filtered)
                THEN outcome = "error" /\ weekly_dates = <<>>
                ELSE outcome = "chart" /\ weekly_dates # <<>>

C5_Witness ==
    /\ outcome = "error"
    /\ Len(df_filtered) = MaxRows
    /\ \E r \in Rows : df_filtered[r].ReleasedDate # NaT

\* C6: plannedRemaining at a week is the size of the whole filtered set less
\* the records whose estimated date is non-null and on or before that week.
C6_PlannedFormula ==
    Charted =>
        /\ total_tasks = Len(df_filtered)
        /\ \A i \in Weeks :
               planned_remaining[i] =
                   Len(df_filtered) - EstimatedBy(weekly_dates[i])

C6_Witness ==
    /\ Charted
    /\ WithoutEstimate > 0
    /\ \E r \in Rows : df_filtered[r].ReleasedDate = NaT
    /\ \E i \in Weeks, r \in Rows :
           df_filtered[r].EstimatedCompletionDate = weekly_dates[i]

\* how often a record occurs in a frame
Occurrences(frame, row) ==
    Cardinality({i \in 1..Len(frame) : frame[i] = row})

\* C7: with "All" the filtered set is the input; with any other selector it
\* holds exactly the input records whose owner is that very string.
C7_OwnerFilterExact ==
    (page = "Engineering Dashboard" /\ outcome # "none") =>
        IF owner = "All"
        THEN df_filtered = df
        ELSE /\ \A r \in Rows : df_filtered[r].DrawingOwner = owner
             /\ \A i \in 1..Len(df) :
                    df[i].DrawingOwner = owner =>
                        Occurrences(df_filtered, df[i]) = Occurrences(df, df[i])
             /\ Len(df_filtered) <= Len(df)

C7_Witness ==
    /\ page = "Engineering Dashboard"
    /\ owner = "BDDS"
    /\ Len(df_filtered) = 1
    /\ \E i \in 1..Len(df) : df[i].DrawingOwner = "bdds"

\* C8: a week after today but within the cutoff holds today's value; a week
\* on or before today counts the records released on or before that week.
C8_ActualFormula ==
    Charted =>
        \A i \in Weeks :
            /\ (today < weekly_dates[i]
                    /\ weekly_dates[i] <= CurrentMonday + OneWeek)
                   => actual_remaining[i] = Len(df_filtered) - ReleasedBy(today)
            /\ weekly_dates[i] <= today
                   => actual_remaining[i] =
                          Len(df_filtered) - ReleasedBy(weekly_dates[i])

C8_Witness ==
    /\ Charted
    /\ \E i \in Weeks :
           /\ today < weekly_dates[i]
           /\ weekly_dates[i] <= CurrentMonday + OneWeek
           /\ ReleasedBy(today) > 0
           /\ ReleasedBy(weekly_dates[i]) > ReleasedBy(today)
    /\ \E i \in Weeks :
           weekly_dates[i] <= today /\ ReleasedBy(weekly_dates[i]) > 0

\* C9: over the weeks where it is non-null, actualRemaining never rises,
\* the step into the flat extension week included.
C9_ActualNonIncreasing ==
    Charted =>
        \A i \in Weeks, j \in Weeks :
            (i < j /\ actual_remaining[i] # None /\ actual_remaining[j] # None)
                => actual_remaining[j] <= actual_remaining[i]

C9_Witness ==
    /\ Charted
    /\ \E i \in Weeks :
           /\ i + 1 \in Weeks
           /\ weekly_dates[i] <= today
           /\ today < weekly_dates[i + 1]
           /\ actual_remaining[i + 1] # None
           /\ actual_remaining[i + 1] < actual_remaining[i]

\* C10: a charted series is non-empty and its last week is past every
\* estimated date: plannedRemaining there counts the records without one.
C10_RangeCoversEstimates ==
    Charted =>
        /\ weekly_dates # <<>>
        /\ planned_remaining[Len(planned_remaining)] = WithoutEstimate

C10_Witness ==
    /\ Charted
    /\ WithoutEstimate > 0
    /\ planned_remaining[Len(planned_remaining)] < planned_remaining[1]
    /\ \E r \in Rows :
           df_filtered[r].EstimatedCompletionDate > weekly_dates[1]

====
